---- MODULE Spec2Model ----
(***************************************************************************)
(* A model of the two scripts of esa-act-history:                          *)
(*   scripts/scan_json.py    the Schema Scanner                            *)
(*   scripts/extract-all.py  the History Extractor                         *)
(* Three specifications share the variables below:                         *)
(*   AnalyzeSpec    analyze_file applied to one bounded JSON document      *)
(*   ScannerSpec    main() of scan_json.py: discover, analyse in a pool,   *)
(*                  reduce in completion order, report, exit               *)
(*   ExtractorSpec  extract-all.py: list revisions, submit one work item   *)
(*                  per revision, collect, shut the pool down, exit        *)
(***************************************************************************)
EXTENDS Integers, Sequences, FiniteSets, TLC

VARIABLES
    \* ---- AnalyzeSpec
    input,          \* the file handed to analyze_file
    output,         \* what analyze_file did with it (NoOutput before the call)
    \* ---- ScannerSpec
    spc,            \* main()'s position: "start", "reduce", "done"
    argc,           \* len(sys.argv)
    target_is_dir,  \* target_dir.is_dir()
    tree,           \* the directory tree: a sequence of entries
    json_files,     \* list(target_dir.rglob("*.json"))
    started,        \* indices of json_files a pool worker has analysed
    queue,          \* results in completion order, not yet taken by reduce
    consumed,       \* indices of json_files whose result reduce has merged, in order
    final_schema,   \* the accumulator of reduce(merge_schemas, results, {})
    warnings,       \* indices of json_files a warning was printed for (stderr)
    report,         \* what main printed on stdout/stderr, as tags
    scan_exit,      \* the process's exit code (meaningful when spc = "done")
    \* ---- ExtractorSpec
    pc,             \* the script's position: "list", "submit", "collect", "unwinding", "done"
    dir_exists,     \* whether /tmp/esa-feeds exists
    repo,           \* the repository's revisions, as jj log would list them
    list_rc,        \* returncode of the listing command
    commits,        \* the parsed listing
    futures,        \* one record per submitted work item
    collected,      \* how many future.result() calls have returned
    files,          \* files written into the output directory: name -> content
    exit_code       \* the process's exit code (meaningful when pc = "done")

anVars == <<input, output>>
scVars == <<spc, argc, target_is_dir, tree, json_files, started, queue, consumed,
            final_schema, warnings, report, scan_exit>>
exVars == <<pc, dir_exists, repo, list_rc, commits, futures, collected, files, exit_code>>
vars == <<anVars, scVars, exVars>>

(***************************************************************************)
(* Bounds of the model.                                                    *)
(***************************************************************************)
MaxItems == 2      \* elements of a top-level array (AnalyzeSpec)
MaxFiles == 3      \* entries of the scanned directory tree (ScannerSpec)
MaxRevs == 2       \* revisions of the repository (ExtractorSpec)

(***************************************************************************)
(* JSON kinds and the Python types json.load gives them.                   *)
(***************************************************************************)
JsonKinds == {"null", "boolean", "integer", "real", "string", "array", "object"}

\* json.load's conversion table (json.decoder): JSON kind -> Python type.
py_type(kind) ==
    CASE kind = "null" -> "NoneType"
      [] kind = "boolean" -> "bool"
      [] kind = "integer" -> "int"
      [] kind = "real" -> "float"
      [] kind = "string" -> "str"
      [] kind = "array" -> "list"
      [] kind = "object" -> "dict"

\* isinstance(value, cls) on the type of value: bool is a subclass of int.
isinstance(type, cls) == type = cls \/ (type = "bool" /\ cls = "int")

EmptyMap == [k \in {} |-> 0]

Put(f, k, v) == [x \in DOMAIN f \cup {k} |-> IF x = k THEN v ELSE f[x]]

(***************************************************************************)
(* A JSON text value is [kind, body]: body holds an array's elements, an   *)
(* object's members as <<name, value>> pairs with distinct names, and is   *)
(* empty otherwise.  json.load turns it into a Python value [type, body].  *)
(***************************************************************************)
RECURSIVE json_load(_)
json_load(v) ==
    [type |-> py_type(v.kind),
     body |-> IF v.kind = "array"
                THEN [i \in DOMAIN v.body |-> json_load(v.body[i])]
              ELSE IF v.kind = "object"
                THEN [i \in DOMAIN v.body |-> <<v.body[i][1], json_load(v.body[i][2])>>]
              ELSE <<>>]

(***************************************************************************)
(* scan_json.py                                                            *)
(***************************************************************************)
\* The bug of testing int before bool: True is an int in Python.
get_value_type_int_first(value) ==
    IF value.type = "NoneType" THEN "Null"
    ELSE IF isinstance(value.type, "int") \/ isinstance(value.type, "float") THEN "Number"
    ELSE IF isinstance(value.type, "bool") THEN "Boolean"
    ELSE IF isinstance(value.type, "str") THEN "String"
    ELSE IF isinstance(value.type, "list") THEN "Array"
    ELSE IF isinstance(value.type, "dict") THEN "Object"
    ELSE "Unknown"

get_value_type(value) ==
    IF value.type = "NoneType" THEN "Null"
    ELSE IF isinstance(value.type, "bool") THEN "Boolean"
    ELSE IF isinstance(value.type, "int") \/ isinstance(value.type, "float") THEN "Number"
    ELSE IF isinstance(value.type, "str") THEN "String"
    ELSE IF isinstance(value.type, "list") THEN "Array"
    ELSE IF isinstance(value.type, "dict") THEN "Object"
    ELSE "Unknown"

\* The bug of assigning 1 instead of adding 1.
increment_overwrite(schema, key, type_name) ==
    LET type_counts == IF key \in DOMAIN schema THEN schema[key] ELSE EmptyMap
    IN Put(schema, key, Put(type_counts, type_name, 1))

\* schema[key][type_name] += 1 on a defaultdict of defaultdict(int).
increment(schema, key, type_name) ==
    LET type_counts == IF key \in DOMAIN schema THEN schema[key] ELSE EmptyMap
        count == IF type_name \in DOMAIN type_counts THEN type_counts[type_name] ELSE 0
    IN Put(schema, key, Put(type_counts, type_name, count + 1))

\* for key, value in item.items(): ...   (pairs in insertion order, from j on)
RECURSIVE count_pairs(_, _, _)
count_pairs(schema, pairs, j) ==
    IF j > Len(pairs) THEN schema
    ELSE count_pairs(increment(schema, pairs[j][1], get_value_type(pairs[j][2])), pairs, j + 1)

\* for item in data: if isinstance(item, dict): ...   (items from i on)
RECURSIVE count_items(_, _, _)
count_items(schema, data, i) ==
    IF i > Len(data) THEN schema
    ELSE count_items(IF isinstance(data[i].type, "dict")
                       THEN count_pairs(schema, data[i].body, 1)
                       ELSE schema,
                     data, i + 1)

\* The classes an exception of class exc is an instance of.
exception_mro(exc) ==
    CASE exc = "JSONDecodeError" -> {"JSONDecodeError", "ValueError", "Exception"}
      [] exc = "UnicodeDecodeError" -> {"UnicodeDecodeError", "ValueError", "Exception"}
      [] exc = "OSError" -> {"OSError", "Exception"}
      [] OTHER -> {}

\* with open(path, 'r', encoding='utf-8') as f: data = json.load(f)
open_and_load(file) ==
    CASE file.kind = "unreadable" -> [exc |-> "OSError", data |-> <<>>]
      [] file.kind = "undecodable" -> [exc |-> "UnicodeDecodeError", data |-> <<>>]
      [] file.kind = "malformed" -> [exc |-> "JSONDecodeError", data |-> <<>>]
      [] file.kind = "json" -> [exc |-> "none", data |-> json_load(file.json)]

\* The bug of catching json.JSONDecodeError only.
except_clauses_decode_only(exc) ==
    IF "JSONDecodeError" \in exception_mro(exc)
      THEN [schema |-> EmptyMap, warning |-> "decode", exc |-> "none"]
    ELSE [schema |-> EmptyMap, warning |-> "none", exc |-> exc]

\* except json.JSONDecodeError: ... return {}   except Exception as e: ... return {}
except_clauses(exc) ==
    IF "JSONDecodeError" \in exception_mro(exc)
      THEN [schema |-> EmptyMap, warning |-> "decode", exc |-> "none"]
    ELSE IF "Exception" \in exception_mro(exc)
      THEN [schema |-> EmptyMap, warning |-> "error", exc |-> "none"]
    ELSE [schema |-> EmptyMap, warning |-> "none", exc |-> exc]

\* analyze_file(path): the map returned, the warning printed, the exception raised.
analyze_file(file) ==
    LET loaded == open_and_load(file)
    IN IF loaded.exc # "none" THEN except_clauses(loaded.exc)
       ELSE IF ~isinstance(loaded.data.type, "list")
         THEN [schema |-> EmptyMap, warning |-> "not_array", exc |-> "none"]
       ELSE [schema |-> count_items(EmptyMap, loaded.data.body, 1),
             warning |-> "none", exc |-> "none"]

\* A set's elements in some fixed order (the order a dict is iterated in).
RECURSIVE SetToSeq(_)
SetToSeq(S) ==
    IF S = {} THEN <<>>
    ELSE LET x == CHOOSE y \in S : TRUE IN <<x>> \o SetToSeq(S \ {x})

\* The bug of assigning the other map's count instead of adding it.
add_count_overwrite(acc_type_counts, type_name, count) ==
    Put(acc_type_counts, type_name, count)

\* acc_type_counts[type_name] = acc_type_counts.get(type_name, 0) + count
add_count(acc_type_counts, type_name, count) ==
    Put(acc_type_counts, type_name,
        (IF type_name \in DOMAIN acc_type_counts THEN acc_type_counts[type_name] ELSE 0)
          + count)

\* for type_name, count in other_type_counts.items(): ...   (names from j on)
RECURSIVE merge_type_counts(_, _, _, _)
merge_type_counts(acc_type_counts, other_type_counts, names, j) ==
    IF j > Len(names) THEN acc_type_counts
    ELSE merge_type_counts(
           add_count(acc_type_counts, names[j], other_type_counts[names[j]]),
           other_type_counts, names, j + 1)

\* for key, other_type_counts in other.items(): acc.setdefault(key, {}) ...
RECURSIVE merge_keys(_, _, _, _)
merge_keys(acc, other, keys, i) ==
    IF i > Len(keys) THEN acc
    ELSE LET key == keys[i]
             acc_type_counts == IF key \in DOMAIN acc THEN acc[key] ELSE EmptyMap
         IN merge_keys(
              Put(acc, key,
                  merge_type_counts(acc_type_counts, other[key],
                                    SetToSeq(DOMAIN other[key]), 1)),
              other, keys, i + 1)

merge_schemas(acc, other) == merge_keys(acc, other, SetToSeq(DOMAIN other), 1)

(***************************************************************************)
(* AnalyzeSpec: analyze_file applied once to a file drawn from Files.      *)
(***************************************************************************)
FieldNames == {"x", "y"}
Tags == {"Null", "Boolean", "Number", "String", "Array", "Object", "Unknown"}

\* A member's value, or an element that is no object: its kind alone matters.
Scalar(kind) == [kind |-> kind, body |-> <<>>]

\* The kinds member "x" and member "y" take in the files drawn.
KindsOf(name) == IF name = "x" THEN JsonKinds ELSE {"boolean", "integer"}

Members(name) == {<<name, Scalar(k)>> : k \in KindsOf(name)}

\* Objects over FieldNames: members in either order, names distinct.
Objects ==
    {[kind |-> "object", body |-> b] :
        b \in {<<>>}
              \cup {<<m>> : m \in Members("x") \cup Members("y")}
              \cup {<<m, n>> : m \in Members("x"), n \in Members("y")}
              \cup {<<n, m>> : m \in Members("x"), n \in Members("y")}}

Elements == Objects \cup {Scalar(k) : k \in JsonKinds \ {"object"}}

Arrays ==
    {[kind |-> "array", body |-> b] :
        b \in UNION {[1..n -> Elements] : n \in 0..MaxItems}}

Files ==
    {[kind |-> "unreadable", json |-> Scalar("null")],
     [kind |-> "undecodable", json |-> Scalar("null")],
     [kind |-> "malformed", json |-> Scalar("null")]}
    \cup {[kind |-> "json", json |-> v] :
            v \in Arrays \cup Objects \cup {Scalar(k) : k \in JsonKinds \ {"array", "object"}}}

NoOutput == [schema |-> EmptyMap, warning |-> "pending", exc |-> "none"]
NoFile == [kind |-> "malformed", json |-> Scalar("null")]

(***************************************************************************)
(* ScannerSpec: main() of scan_json.py over a bounded directory tree.      *)
(***************************************************************************)
Arr(elements) == [kind |-> "array", body |-> elements]
Obj(members) == [kind |-> "object", body |-> members]
Json(v) == [kind |-> "json", json |-> v]

\* The files a scanned tree is built from.
SampleFiles ==
    {[kind |-> "malformed", json |-> Scalar("null")],
     [kind |-> "unreadable", json |-> Scalar("null")],
     Json(Obj(<< <<"x", Scalar("integer")>> >>)),
     Json(Arr(<< Obj(<< <<"x", Scalar("integer")>> >>) >>)),
     Json(Arr(<< Obj(<< <<"x", Scalar("string")>> >>), Obj(<< <<"x", Scalar("null")>> >>) >>)),
     Json(Arr(<< Scalar("integer"), Scalar("integer"), Obj(<< <<"y", Scalar("boolean")>> >>) >>)),
     Json(Arr(<< Obj(<< <<"x", Scalar("integer")>>, <<"y", Scalar("array")>> >>),
                 Obj(<< <<"x", Scalar("real")>> >>) >>))}

\* A directory entry: a file with its suffix.
Entries ==
    {[suffix |-> ".json", file |-> f] : f \in SampleFiles}
    \cup {[suffix |-> ".txt", file |-> NoFile]}

EntryList == SetToSeq(Entries)

\* The trees scanned: up to MaxFiles entries.  Workers take the files in any
\* order, so a tree stands for every listing order of its entries; each is drawn
\* once, its entries in the order of EntryList.
Trees ==
    {[i \in DOMAIN s |-> EntryList[s[i]]] :
        s \in {t \in UNION {[1..n -> DOMAIN EntryList] : n \in 0..MaxFiles} :
                 \A i, j \in DOMAIN t : i < j => t[i] <= t[j]}}

\* target_dir.rglob("*.json")
rglob(entries) ==
    LET IsJson(e) == e.suffix = ".json"
        found == SelectSeq(entries, IsJson)
    IN [i \in DOMAIN found |-> found[i].file]

\* The bug of leaving out the is_dir() check.
argument_check_no_is_dir(n, is_dir) ==
    IF n < 2 THEN "usage" ELSE "ok"

\* if len(sys.argv) < 2: ... sys.exit(1)   if not target_dir.is_dir(): ... sys.exit(1)
argument_check(n, is_dir) ==
    IF n < 2 THEN "usage"
    ELSE IF ~is_dir THEN "not_dir"
    ELSE "ok"

\* main() up to the creation of the pool.
MainStart ==
    /\ spc = "start"
    /\ LET check == argument_check(argc, target_is_dir)
           found == rglob(tree)
       IN IF check # "ok"
            THEN /\ report' = <<check>>
                 /\ scan_exit' = 1
                 /\ spc' = "done"
                 /\ UNCHANGED json_files
          ELSE IF found = <<>>
            THEN /\ report' = <<"searching", "no_files">>
                 /\ scan_exit' = 0
                 /\ spc' = "done"
                 /\ json_files' = found
          ELSE /\ report' = <<"searching", "found">>
               /\ spc' = "reduce"
               /\ json_files' = found
               /\ UNCHANGED scan_exit
    /\ UNCHANGED <<argc, target_is_dir, tree, started, queue, consumed, final_schema,
                   warnings>>
    /\ UNCHANGED <<anVars, exVars>>

\* A pool worker runs analyze_file on one file; its result joins the results in
\* completion order (imap_unordered).
Analyze(i) ==
    /\ spc = "reduce"
    /\ i \in DOMAIN json_files
    /\ i \notin started
    /\ LET result == analyze_file(json_files[i])
       IN /\ queue' = Append(queue, [index |-> i, result |-> result])
          /\ warnings' = IF result.warning # "none" THEN warnings \cup {i} ELSE warnings
    /\ started' = started \cup {i}
    /\ UNCHANGED <<spc, argc, target_is_dir, tree, json_files, consumed, final_schema,
                   report, scan_exit>>
    /\ UNCHANGED <<anVars, exVars>>

\* One step of reduce(merge_schemas, results, {}): the next completed result is
\* merged; a worker's exception is raised again here and ends the run.
Reduce ==
    /\ spc = "reduce"
    /\ queue # <<>>
    /\ LET head == Head(queue)
       IN IF head.result.exc # "none"
            THEN /\ spc' = "done"
                 /\ scan_exit' = 1
                 /\ report' = Append(report, "traceback")
                 /\ UNCHANGED <<final_schema, consumed>>
          ELSE /\ final_schema' = merge_schemas(final_schema, head.result.schema)
               /\ consumed' = Append(consumed, head.index)
               /\ UNCHANGED <<spc, scan_exit, report>>
    /\ queue' = Tail(queue)
    /\ UNCHANGED <<argc, target_is_dir, tree, json_files, started, warnings>>
    /\ UNCHANGED <<anVars, exVars>>

\* if final_schema: print_results(final_schema)  else: print("... no valid ...")
MainFinish ==
    /\ spc = "reduce"
    /\ Len(consumed) = Len(json_files)
    /\ report' = Append(report, IF final_schema # EmptyMap THEN "results" ELSE "no_valid")
    /\ scan_exit' = 0
    /\ spc' = "done"
    /\ UNCHANGED <<argc, target_is_dir, tree, json_files, started, queue, consumed,
                   final_schema, warnings>>
    /\ UNCHANGED <<anVars, exVars>>

(***************************************************************************)
(* extract-all.py.  Commit ids and timestamps are texts (sequences of      *)
(* characters): hexadecimal digits and decimal digits.                     *)
(***************************************************************************)
max_workers == 50

CommitIds == {<<"a">>, <<"1">>, <<"1", "a">>}
Timestamps == {<<"1">>, <<"1", "1">>}
Contents == {"v1", "v2"}

Revisions == [commit_id : CommitIds, timestamp : Timestamps]

\* Histories: revisions with distinct commit ids.
Repos ==
    {r \in UNION {[1..n -> Revisions] : n \in 0..MaxRevs} :
        \A i, j \in DOMAIN r : i # j => r[i].commit_id # r[j].commit_id}

\* The template concat(commit_id, " ", timestamp, "\n"): one line per revision.
listing_lines(revisions) ==
    [i \in DOMAIN revisions |-> revisions[i].commit_id \o <<" ">> \o revisions[i].timestamp]

\* line.strip().split(): the maximal runs of non-blank characters.
RECURSIVE split_from(_, _, _, _)
split_from(line, i, token, tokens) ==
    LET closed == IF token = <<>> THEN tokens ELSE Append(tokens, token)
    IN IF i > Len(line) THEN closed
       ELSE IF line[i] = " " THEN split_from(line, i + 1, <<>>, closed)
       ELSE split_from(line, i + 1, Append(token, line[i]), tokens)

split(line) == split_from(line, 1, <<>>, <<>>)

\* commits = [line.strip().split() for line in res.stdout.splitlines()]
parse_commits(lines) == [i \in DOMAIN lines |-> split(lines[i])]

\* What the listing command can leave on stdout: all lines when it succeeds,
\* any leading part of them (none included) when it fails.
ListingOutputs(rc) ==
    IF rc = 0 THEN {listing_lines(repo)}
    ELSE {SubSeq(listing_lines(repo), 1, n) : n \in 0..Len(repo)}

\* What 'jj file show' can return for a revision.
ShowResults ==
    {[returncode |-> 0, stdout |-> c] : c \in Contents}
    \cup {[returncode |-> 1, stdout |-> ""]}

\* f"{timestamp}_{commit_id}.json"
output_file(timestamp, commit_id) ==
    timestamp \o <<"_">> \o commit_id \o <<".", "j", "s", "o", "n">>

\* The bug of never looking at the return code.
check_returncode_ignored(res) == FALSE

\* res.check_returncode(): whether CalledProcessError is raised.
check_returncode(res) == res.returncode # 0

\* output_file.write_text(text): FileNotFoundError when the directory is absent.
write_text(fs, dir, name, text) ==
    IF ~dir THEN [raised |-> TRUE, files |-> fs]
    ELSE [raised |-> FALSE, files |-> Put(fs, name, text)]

\* extract_file(commit_id, timestamp) given the retrieval's result res.
extract_file(commit_id, timestamp, res, fs, dir) ==
    IF check_returncode(res) THEN [raised |-> TRUE, files |-> fs]
    ELSE write_text(fs, dir, output_file(timestamp, commit_id), res.stdout)

NoResult == [returncode |-> 0, stdout |-> ""]

\* res = subprocess.run(CMD, ...); commits = [...]: the return code is not looked at.
ListRevisions ==
    /\ pc = "list"
    /\ \E rc \in {0, 1} :
         /\ list_rc' = rc
         /\ \E lines \in ListingOutputs(rc) : commits' = parse_commits(lines)
    /\ pc' = "submit"
    /\ UNCHANGED <<dir_exists, repo, futures, collected, files, exit_code>>
    /\ UNCHANGED <<anVars, scVars>>

\* One turn of 'for commit_id, timestamp in commits: futures.append(submit(...))',
\* or the end of the loop.  A line that is not two fields fails the unpacking.
Submit ==
    /\ pc = "submit"
    /\ IF Len(futures) = Len(commits)
         THEN /\ pc' = "collect"
              /\ UNCHANGED futures
       ELSE LET c == commits[Len(futures) + 1]
            IN IF Len(c) # 2
                 THEN /\ pc' = "unwinding"
                      /\ UNCHANGED futures
               ELSE /\ futures' = Append(futures,
                          [commit_id |-> c[1], timestamp |-> c[2], state |-> "pending",
                           res |-> NoResult])
                    /\ UNCHANGED pc
    /\ UNCHANGED <<dir_exists, repo, list_rc, commits, collected, files, exit_code>>
    /\ UNCHANGED <<anVars, scVars>>

Running == {i \in DOMAIN futures : futures[i].state = "running"}

\* A free worker process of the pool takes a pending work item.
WorkerStart(i) ==
    /\ i \in DOMAIN futures
    /\ futures[i].state = "pending"
    /\ Cardinality(Running) < max_workers
    /\ futures' = [futures EXCEPT ![i].state = "running"]
    /\ UNCHANGED <<pc, dir_exists, repo, list_rc, commits, collected, files, exit_code>>
    /\ UNCHANGED <<anVars, scVars>>

\* The worker runs extract_file: the retrieval returns res, and the future ends
\* finished or failed.
ExtractFile(i) ==
    /\ i \in DOMAIN futures
    /\ futures[i].state = "running"
    /\ \E res \in ShowResults :
         LET r == extract_file(futures[i].commit_id, futures[i].timestamp, res, files,
                               dir_exists)
         IN /\ files' = r.files
            /\ futures' = [futures EXCEPT
                             ![i].state = IF r.raised THEN "failed" ELSE "finished",
                             ![i].res = res]
    /\ UNCHANGED <<pc, dir_exists, repo, list_rc, commits, collected, exit_code>>
    /\ UNCHANGED <<anVars, scVars>>

\* One future.result() of 'results = [future.result() for future in futures]':
\* it blocks until the future is done, and raises what the work item raised.
Collect ==
    /\ pc = "collect"
    /\ collected < Len(futures)
    /\ futures[collected + 1].state \in {"finished", "failed"}
    /\ IF futures[collected + 1].state = "failed"
         THEN /\ pc' = "unwinding"
              /\ UNCHANGED collected
       ELSE /\ collected' = collected + 1
            /\ UNCHANGED pc
    /\ UNCHANGED <<dir_exists, repo, list_rc, commits, futures, files, exit_code>>
    /\ UNCHANGED <<anVars, scVars>>

\* The bug of shutting down without waiting (shutdown(wait=False) and an exit
\* that kills the workers).
pool_drained_no_wait(fs) == TRUE

\* Executor.__exit__ is shutdown(wait=True): every work item submitted has run.
pool_drained(fs) == \A i \in DOMAIN fs : fs[i].state \in {"finished", "failed"}

\* The with block is left, normally or by an exception; the pool is shut down and
\* the script ends: exit code 1 with a traceback if an exception is propagating.
Shutdown ==
    /\ \/ pc = "collect" /\ collected = Len(futures)
       \/ pc = "unwinding"
    /\ pool_drained(futures)
    /\ exit_code' = IF pc = "unwinding" THEN 1 ELSE 0
    /\ pc' = "done"
    /\ UNCHANGED <<dir_exists, repo, list_rc, commits, futures, collected, files>>
    /\ UNCHANGED <<anVars, scVars>>

(***************************************************************************)
(* The three specifications.                                               *)
(***************************************************************************)
AnalyzeIdle == input = NoFile /\ output = NoOutput

ScannerIdle ==
    /\ spc = "off" /\ argc = 1 /\ target_is_dir = FALSE /\ tree = <<>>
    /\ json_files = <<>> /\ started = {} /\ queue = <<>> /\ consumed = <<>>
    /\ final_schema = EmptyMap /\ warnings = {} /\ report = <<>> /\ scan_exit = 0

ExtractorIdle ==
    /\ pc = "off" /\ dir_exists = FALSE /\ repo = <<>> /\ list_rc = 0
    /\ commits = <<>> /\ futures = <<>> /\ collected = 0 /\ files = EmptyMap
    /\ exit_code = 0

AnalyzeInit ==
    /\ input \in Files
    /\ output = NoOutput
    /\ ScannerIdle
    /\ ExtractorIdle

\* analyze_file(path) is called on the file.
AnalyzeFile ==
    /\ output = NoOutput
    /\ output' = analyze_file(input)
    /\ UNCHANGED <<input, scVars, exVars>>

AnalyzeNext == AnalyzeFile

AnalyzeSpec == AnalyzeInit /\ [][AnalyzeNext]_vars

ScannerInit ==
    /\ spc = "start"
    /\ argc \in {1, 2}
    /\ target_is_dir \in BOOLEAN
    /\ tree \in Trees
    /\ (argc < 2 => ~target_is_dir)
    /\ (~target_is_dir => tree = <<>>)
    /\ json_files = <<>> /\ started = {} /\ queue = <<>> /\ consumed = <<>>
    /\ final_schema = EmptyMap /\ warnings = {} /\ report = <<>> /\ scan_exit = 0
    /\ AnalyzeIdle
    /\ ExtractorIdle

ScannerNext ==
    \/ MainStart
    \/ \E i \in 1..MaxFiles : Analyze(i)
    \/ Reduce
    \/ MainFinish

ScannerSpec == ScannerInit /\ [][ScannerNext]_vars

ExtractorInit ==
    /\ pc = "list"
    /\ dir_exists \in BOOLEAN
    /\ repo \in Repos
    /\ list_rc = 0 /\ commits = <<>> /\ futures = <<>> /\ collected = 0
    /\ files = EmptyMap /\ exit_code = 0
    /\ AnalyzeIdle
    /\ ScannerIdle

ExtractorNext ==
    \/ ListRevisions
    \/ Submit
    \/ \E i \in 1..MaxRevs : WorkerStart(i)
    \/ \E i \in 1..MaxRevs : ExtractFile(i)
    \/ Collect
    \/ Shutdown

ExtractorSpec == ExtractorInit /\ [][ExtractorNext]_vars

(***************************************************************************)
(* Properties of analyze_file and get_value_type (AnalyzeSpec).            *)
(***************************************************************************)
\* The count a map holds for (field, tag): 0 when the cell is absent.
CountIn(schema, field, tag) ==
    IF field \in DOMAIN schema /\ tag \in DOMAIN schema[field] THEN schema[field][tag] ELSE 0

\* The positions <<i, j>> of the (field, value) pairs of the elements that are objects.
PairsOf(data) ==
    UNION {{<<i, j>> : j \in DOMAIN data[i].body} :
             i \in {k \in DOMAIN data : data[k].type = "dict"}}

\* How many pairs of data have this field and a value classified as this tag.
ExpectedCount(data, field, tag) ==
    Cardinality({p \in PairsOf(data) :
                   /\ data[p[1]].body[p[2]][1] = field
                   /\ get_value_type(data[p[1]].body[p[2]][2]) = tag})

IsArrayFile(file) == file.kind = "json" /\ file.json.kind = "array"

Analyzed == output # NoOutput

\* C2: for a file whose parsed JSON is an array, the map analyze_file returns holds
\* for (field, tag) exactly the number of (field, value) pairs with that field and
\* that classification over the array's object elements; elements that are not
\* objects add nothing, and no field or tag is present without such a pair.
C2_CountsArePairCounts ==
    (Analyzed /\ IsArrayFile(input)) =>
        LET data == json_load(input.json).body
        IN /\ output.exc = "none"
           /\ output.warning = "none"
           /\ \A field \in FieldNames, tag \in Tags :
                CountIn(output.schema, field, tag) = ExpectedCount(data, field, tag)
           /\ DOMAIN output.schema \subseteq FieldNames
           /\ \A field \in DOMAIN output.schema :
                /\ DOMAIN output.schema[field] # {}
                /\ DOMAIN output.schema[field] \subseteq Tags
                /\ \A tag \in DOMAIN output.schema[field] :
                     ExpectedCount(data, field, tag) >= 1

\* C2's case: an array holding an element that is no object and an object with a
\* boolean member "y" has been analysed, and only "y" is in the map.
C2_Witness ==
    /\ Analyzed
    /\ IsArrayFile(input)
    /\ \E i \in DOMAIN input.json.body : input.json.body[i].kind # "object"
    /\ \E i \in DOMAIN input.json.body : input.json.body[i].kind = "object"
    /\ CountIn(output.schema, "y", "Boolean") = 1
    /\ DOMAIN output.schema = {"y"}

\* The tag the classification contract gives each JSON kind.
ExpectedTag(kind) ==
    CASE kind = "null" -> "Null"
      [] kind = "boolean" -> "Boolean"
      [] kind \in {"integer", "real"} -> "Number"
      [] kind = "string" -> "String"
      [] kind = "array" -> "Array"
      [] kind = "object" -> "Object"

\* The members (name, value) of the object elements of a JSON array.
MembersOf(array) ==
    UNION {{array.body[i].body[j] : j \in DOMAIN array.body[i].body} :
             i \in {k \in DOMAIN array.body : array.body[k].kind = "object"}}

\* C9: get_value_type gives every JSON value the tag of its kind (null Null, a
\* boolean Boolean and never Number, a number Number, a string String, an array
\* Array, an object Object) and never Unknown: the tags analyze_file records for a
\* field are exactly the tags of the kinds of that field's values.
C9_ClassificationTotal ==
    /\ \A kind \in JsonKinds :
         get_value_type(json_load(Scalar(kind))) = ExpectedTag(kind)
    /\ (Analyzed /\ IsArrayFile(input)) =>
         \A field \in FieldNames :
            (IF field \in DOMAIN output.schema THEN DOMAIN output.schema[field] ELSE {})
              = {ExpectedTag(m[2].kind) : m \in {n \in MembersOf(input.json) : n[1] = field}}

\* C9's case: a file with a boolean and an integer under the same field was analysed.
C9_Witness ==
    /\ Analyzed
    /\ IsArrayFile(input)
    /\ <<"y", Scalar("boolean")>> \in MembersOf(input.json)
    /\ <<"y", Scalar("integer")>> \in MembersOf(input.json)
    /\ <<"x", Scalar("real")>> \in MembersOf(input.json)
    /\ DOMAIN output.schema["y"] = {"Boolean", "Number"}

(***************************************************************************)
(* Properties of the scan (ScannerSpec).                                   *)
(***************************************************************************)
Range(seq) == {seq[i] : i \in DOMAIN seq}

\* The elements of a set of numbers in ascending order.
RECURSIVE Ascending(_)
Ascending(S) ==
    IF S = {} THEN <<>>
    ELSE LET least == CHOOSE x \in S : \A y \in S : x <= y
         IN <<least>> \o Ascending(S \ {least})

\* merge_schemas folded from acc over the maps of the files at indices, in that order.
RECURSIVE FoldFrom(_, _, _)
FoldFrom(acc, indices, i) ==
    IF i > Len(indices) THEN acc
    ELSE FoldFrom(merge_schemas(acc, analyze_file(json_files[indices[i]]).schema),
                  indices, i + 1)

\* C1: whatever the order in which the per-file maps arrive, the fold of
\* merge_schemas from the empty map over the maps merged so far equals the fold
\* over the same maps in the order of the file list; no map merged gives the empty
\* map and one map merged gives that map.
C1_MergeOrderIndependent ==
    spc \in {"reduce", "done"} =>
        /\ final_schema = FoldFrom(EmptyMap, Ascending(Range(consumed)), 1)
        /\ (consumed = <<>> => final_schema = EmptyMap)
        /\ (Len(consumed) = 1 =>
              final_schema = analyze_file(json_files[consumed[1]]).schema)

\* C1's case: three maps were merged out of file order, two of them counting the
\* same (field, tag).
C1_Witness ==
    /\ spc = "done"
    /\ Len(consumed) = 3
    /\ consumed[1] > consumed[2]
    /\ \A i \in DOMAIN consumed :
         CountIn(analyze_file(json_files[consumed[i]]).schema, "x", "Number") >= 1
    /\ CountIn(final_schema, "x", "Number") >= 4

\* A file that is malformed, unreadable, or not a top-level array.
IsBadFile(file) == ~IsArrayFile(file)

RECURSIVE SumOver(_, _, _, _)
SumOver(S, fileList, field, tag) ==
    IF S = {} THEN 0
    ELSE LET i == CHOOSE x \in S : TRUE
         IN ExpectedCount(json_load(fileList[i].json).body, field, tag)
              + SumOver(S \ {i}, fileList, field, tag)

\* The pair count of (field, tag) over the valid files among those at indices S.
ValidCount(S, field, tag) ==
    SumOver({i \in S : IsArrayFile(json_files[i])}, json_files, field, tag)

\* C3: a bad file (malformed, not a top-level array, or failing otherwise) gives an
\* empty map and a warning and never aborts the scan: no result carries an
\* exception, the run never ends in a traceback, and the aggregate holds exactly
\* the pair counts of the valid files merged, as if the bad files were absent.
C3_BadFilesContained ==
    /\ \A k \in DOMAIN queue :
         /\ queue[k].result.exc = "none"
         /\ IsBadFile(json_files[queue[k].index]) =>
              /\ queue[k].result.schema = EmptyMap
              /\ queue[k].result.warning # "none"
    /\ \A i \in started : IsBadFile(json_files[i]) => i \in warnings
    /\ \A k \in DOMAIN report : report[k] # "traceback"
    /\ spc \in {"reduce", "done"} =>
         /\ DOMAIN final_schema \subseteq FieldNames
         /\ \A field \in FieldNames, tag \in Tags :
              CountIn(final_schema, field, tag) = ValidCount(Range(consumed), field, tag)
    /\ (spc = "done" /\ json_files # <<>>) =>
         /\ scan_exit = 0
         /\ Range(consumed) = DOMAIN json_files

\* C3's case: a scan of a malformed file, an unreadable file and a valid file has
\* ended with the valid file's counts as the aggregate.
C3_Witness ==
    /\ spc = "done"
    /\ \E i, j, k \in DOMAIN json_files :
         /\ json_files[i].kind = "malformed"
         /\ json_files[j].kind = "unreadable"
         /\ IsArrayFile(json_files[k])
         /\ final_schema = analyze_file(json_files[k]).schema
    /\ final_schema # EmptyMap
    /\ Cardinality(warnings) = 2

ArgumentsBad == argc < 2 \/ ~target_is_dir

\* C8: the Scanner exits 1 exactly when the directory argument is missing or is no
\* directory, and then analyses no file; otherwise it exits 0: with no JSON file
\* found it says so and starts no analysis, with files that all contribute nothing
\* it says no valid structures were found; warnings do not change the exit code.
C8_ExitCodes ==
    /\ ArgumentsBad => started = {} /\ json_files = <<>>
    /\ spc = "done" =>
         /\ scan_exit \in {0, 1}
         /\ scan_exit = 1 <=> ArgumentsBad
         /\ (argc < 2) => report = <<"usage">>
         /\ (argc >= 2 /\ ~target_is_dir) => report = <<"not_dir">>
         /\ (~ArgumentsBad /\ rglob(tree) = <<>>) =>
              /\ report = <<"searching", "no_files">>
              /\ started = {}
         /\ (~ArgumentsBad /\ rglob(tree) # <<>>) =>
              /\ started = DOMAIN json_files
              /\ report[Len(report)] =
                   IF \A i \in DOMAIN json_files :
                        analyze_file(json_files[i]).schema = EmptyMap
                     THEN "no_valid" ELSE "results"
         /\ (warnings # {}) => scan_exit = 0

\* C8's case: a scan whose files were all invalid ended, with warnings printed.
C8_Witness ==
    /\ spc = "done"
    /\ Len(json_files) >= 2
    /\ Cardinality(warnings) = Len(json_files)
    /\ report[Len(report)] = "no_valid"
    /\ scan_exit = 0

(***************************************************************************)
(* Properties of the extraction (ExtractorSpec).                           *)
(***************************************************************************)
\* The snapshot's name the contract gives a revision: {timestamp}_{revision_id}.json
ExpectedName(revision) ==
    revision.timestamp \o <<"_">> \o revision.commit_id \o <<".", "j", "s", "o", "n">>

\* Work item i has run to its end.
Ran(i) == futures[i].state \in {"finished", "failed"}

\* Every revision of the history was submitted and its retrieval returned 0.
AllRetrievalsSucceeded ==
    /\ Len(futures) = Len(repo)
    /\ \A i \in DOMAIN futures : Ran(i) /\ futures[i].res.returncode = 0

\* C4: a revision listing that exits non-zero is fatal: the run ends in failure and
\* no per-revision work is done.
C4_ListingFailureFatal ==
    (pc = "done" /\ list_rc # 0) => (exit_code # 0 /\ futures = <<>>)

\* C5: a retrieval that exits non-zero is raised, not swallowed: the work item
\* fails, no snapshot is written for its revision, and the run ends in failure.
C5_RetrievalFailureRaised ==
    \A i \in DOMAIN futures :
        (Ran(i) /\ futures[i].res.returncode # 0) =>
            /\ futures[i].state = "failed"
            /\ ExpectedName(repo[i]) \notin DOMAIN files
            /\ pc = "done" => exit_code = 1

\* C5's case: a run in which the second revision's retrieval failed and the
\* first's succeeded has ended.
C5_Witness ==
    /\ pc = "done"
    /\ dir_exists
    /\ Len(futures) = 2
    /\ futures[1].state = "finished"
    /\ futures[2].state = "failed"
    /\ futures[2].res.returncode = 1
    /\ exit_code = 1

\* C6: when the listing and every retrieval succeed, the run ends with exactly one
\* file per listed revision, named {timestamp}_{revision_id}.json, holding what
\* the retrieval returned; nothing else is written and no two revisions share a file.
C6_OneFilePerRevision ==
    (pc = "done" /\ list_rc = 0 /\ AllRetrievalsSucceeded) =>
        /\ DOMAIN files = {ExpectedName(repo[i]) : i \in DOMAIN repo}
        /\ Cardinality(DOMAIN files) = Len(repo)
        /\ \A i \in DOMAIN repo : files[ExpectedName(repo[i])] = futures[i].res.stdout

\* C7: the output directory is created if absent: a run whose listing and
\* retrievals all succeed ends with the directory present and one snapshot per
\* revision in it.  No step removes the directory, so its presence at the end is
\* what the claim adds for a run that started without it; the claim is stated for
\* a history of at least one revision, where the snapshots are at stake too.
C7_DirectoryCreated ==
    (pc = "done" /\ list_rc = 0 /\ AllRetrievalsSucceeded /\ repo # <<>>) =>
        /\ dir_exists
        /\ Cardinality(DOMAIN files) = Len(repo)

\* C10: a failed retrieval does not stop the other revisions: every work item is
\* submitted before any result is collected, the pool is drained before the script
\* ends, and, the output directory existing, every listed revision whose own
\* retrieval succeeded has its snapshot written when the script ends.
C10_SiblingsNotStopped ==
    /\ pc \in {"collect", "unwinding", "done"} => Len(futures) = Len(commits)
    /\ pc = "done" => \A i \in DOMAIN futures : Ran(i)
    /\ (pc = "done" /\ dir_exists) =>
         \A i \in DOMAIN futures :
            futures[i].res.returncode = 0 =>
               /\ futures[i].state = "finished"
               /\ ExpectedName(repo[i]) \in DOMAIN files
               /\ files[ExpectedName(repo[i])] = futures[i].res.stdout

\* C10's case: the first revision's retrieval failed, the script ended in failure,
\* and the second revision's snapshot is there.
C10_Witness ==
    /\ pc = "done"
    /\ dir_exists
    /\ exit_code = 1
    /\ Len(futures) = 2
    /\ futures[1].state = "failed"
    /\ futures[2].state = "finished"
    /\ ExpectedName(repo[2]) \in DOMAIN files

====
